---- MODULE Spec2Model ----
(***************************************************************************)
(* Model of the TeleDisk (TD0) analyser, src/src/main.rs.                  *)
(*                                                                         *)
(*   Spec          the batch driver, the header decoder and the            *)
(*                 track/sector walker; the bytes of a stream are chosen   *)
(*                 by each read as it happens (any stream, any truncation).*)
(*   SpecDecode    decode_td0 run one loop iteration at a time over        *)
(*                 bounded inputs.                                         *)
(*   SpecClassify  analyse_raw_sector run one 32-byte slot at a time over  *)
(*                 bounded sectors.                                        *)
(*                                                                         *)
(* Rust's panics (expect, unwrap, assert!, panic!, slice indexing) unwind  *)
(* out of main: nothing in the program catches them, so a panic ends the   *)
(* process.  Byte sequences are 1-based here and 0-based in the source;    *)
(* B and Slice translate the indices.                                      *)
(***************************************************************************)
EXTENDS Integers, Sequences, FiniteSets, TLC

\* ------------------------------------------------------------------ bounds
NumStreams == 2      \* TD0 streams in the batch
MaxTracks  == 1      \* real (non-sentinel) tracks read per stream
MaxInput   == 5      \* bytes of compressed input given to decode_td0
MaxSlots   == 1      \* 32-byte slots in a sector given to analyse_raw_sector

\* ----------------------------------------------------------- byte helpers
B(data, k) == data[k + 1]                          \* data[k]
Slice(data, from, to) == SubSeq(data, from + 1, to) \* &data[from..to]
SliceFrom(data, from) == SubSeq(data, from + 1, Len(data)) \* &data[from..]

And7f(b) == b % 128                                \* b & 0x7f
HighBit(b) == (b \div 128) % 2 = 1                 \* b & 0x80 != 0
Printable(b) == b >= 32 /\ b <= 126                \* (0x20..=0x7E).contains(&b)

u16_from_le_bytes(b0, b1) == b0 + 256 * b1
u16_to_le_bytes(v) == << v % 256, (v \div 256) % 256 >>
le_fold(bytes) ==                                  \* iter().rev().fold(0, (acc << 8) | b)
    LET RECURSIVE f(_)
        f(k) == IF k = 0 THEN 0 ELSE f(k - 1) + bytes[k] * (256 ^ (k - 1))
    IN f(Len(bytes))

\* for _ in 0..count { output.extend_from_slice(block) }, from an empty output
Repeat(block, count) ==
    [k \in 1..(count * Len(block)) |-> block[((k - 1) % Len(block)) + 1]]

\* ------------------------------------------------------------- recognizers
dent_size == 32

fat_status(b0) ==
    CASE b0 = 0   -> "00"
      [] b0 = 5   -> "05"
      [] b0 = 46  -> "2E"
      [] b0 = 229 -> "E5"
      [] b0 \notin {0, 5, 46, 229} /\ Printable(b0) -> "--"
      [] OTHER    -> "None"

\* the FAT recognizer; a match prints its "F" line itself
isfat(data, i) ==
    LET name_and_ext  == Slice(data, i, i + 11)
        attr          == B(data, i + 11)
        zeros         == Slice(data, i + 12, i + 22)
        cluster1      == Slice(data, i + 26, i + 28)
        file_size     == Slice(data, i + 28, i + 32)
        status        == fat_status(name_and_ext[1])
        nonzero_count == Cardinality({k \in 1..Len(zeros) : zeros[k] # 0})
    IN  IF status = "None"
        THEN [flow |-> "Break", printed |-> << >>]
        ELSE IF \E k \in 1..11 : ~Printable(And7f(name_and_ext[k]))
        THEN [flow |-> "Break", printed |-> << >>]
        ELSE IF nonzero_count > 2
        THEN [flow |-> "Break", printed |-> << >>]
        ELSE [flow |-> "Continue",
              printed |-> << [kind |-> "F", slot |-> i \div 32, status |-> status,
                              attr |-> attr, cluster |-> le_fold(cluster1),
                              size |-> le_fold(file_size)] >>]

\* the CP/M recognizer; a match prints its "C" line itself
iscpm(data, i) ==
    LET status           == B(data, i)
        cpm_name_and_ext == Slice(data, i + 1, i + 12)
        ex               == B(data, i + 12)
        s1               == B(data, i + 13)
        s2               == B(data, i + 14)
        rc               == B(data, i + 15)
        name_and_ext     == [k \in 1..11 |-> And7f(cpm_name_and_ext[k])]
        flags            == [k \in 1..11 |-> HighBit(cpm_name_and_ext[k])]
    IN  IF status # 0 /\ status # 229 /\ status # 128
        THEN [flow |-> "Break", printed |-> << >>]
        ELSE IF \E k \in 1..11 : ~Printable(And7f(cpm_name_and_ext[k]))
        THEN [flow |-> "Break", printed |-> << >>]
        ELSE IF status = 229 /\ \A k \in 1..11 : name_and_ext[k] = 229
        THEN [flow |-> "Break", printed |-> << >>]
        ELSE IF s1 # 0 \/ s2 # 0 \/ rc > 128
        THEN [flow |-> "Break", printed |-> << >>]
        ELSE [flow |-> "Continue",
              printed |-> << [kind |-> "C", slot |-> i \div 32, status |-> status,
                              name |-> name_and_ext, flags |-> flags,
                              ex |-> ex, rc |-> rc] >>]

\* one line of hex dump: chunklen is 32, a slot is 32 bytes
print_hex_and_ascii(line_number, data, hexonly) ==
    << [kind |-> "-", slot |-> line_number, raw |-> data, hexonly |-> hexonly] >>

\* one iteration of the loop of analyse_raw_sector: everything printed for
\* the slot at byte offset i, and the two counters' increments
analyse_slot(data, i) ==
    LET f == isfat(data, i)
        c == iscpm(data, i)
        clocked == (IF f.flow = "Continue" THEN 1 ELSE 0)
                 + (IF c.flow = "Continue" THEN 1 ELSE 0)
    IN  [printed |-> f.printed \o c.printed \o
                     (IF clocked # 1
                      THEN print_hex_and_ascii(i \div 32, Slice(data, i, i + dent_size),
                                               clocked # 0)
                      ELSE << >>),
         fat |-> IF f.flow = "Continue" THEN 1 ELSE 0,
         cpm |-> IF c.flow = "Continue" THEN 1 ELSE 0]

RECURSIVE analyse_from(_, _)
analyse_from(data, i) ==
    IF i >= Len(data) THEN << >>
    ELSE analyse_slot(data, i).printed \o analyse_from(data, i + dent_size)

analyse_raw_sector(data) == analyse_from(data, 0)

\* ----------------------------------------------------------------- decoder
\* rle_iteration with the block emitted once whatever b is
rle_iteration_once(inp, outp) ==
    LET a == B(inp, 0)
        b == B(inp, 1)
        len == IF a = 0 THEN b ELSE a * 2
    IN  IF 2 + len > Len(inp)
        THEN [ok |-> FALSE, inp |-> inp, outp |-> outp]
        ELSE [ok |-> TRUE, inp |-> SliceFrom(inp, 2 + len),
              outp |-> outp \o Slice(inp, 2, 2 + len)]

\* one iteration of `while input.len() > 1` of the RLE arm
rle_iteration(inp, outp) ==
    LET a == B(inp, 0)
        b == B(inp, 1)
        count == IF a = 0 THEN 1 ELSE b
        len   == IF a = 0 THEN b ELSE a * 2
    IN  IF 2 + len > Len(inp)
        THEN [ok |-> FALSE, inp |-> inp, outp |-> outp]
        ELSE [ok |-> TRUE, inp |-> SliceFrom(inp, 2 + len),
              outp |-> outp \o Repeat(Slice(inp, 2, 2 + len), count)]

\* repeated_iteration with the pattern written high byte first
repeated_iteration_be(inp, outp) ==
    IF Len(inp) < 4
    THEN [ok |-> FALSE, inp |-> inp, outp |-> outp]
    ELSE LET count   == u16_from_le_bytes(B(inp, 0), B(inp, 1))
             pattern == u16_from_le_bytes(B(inp, 2), B(inp, 3))
         IN  [ok |-> TRUE, inp |-> SliceFrom(inp, 4),
              outp |-> outp \o Repeat(<< (pattern \div 256) % 256, pattern % 256 >>, count)]

\* one iteration of `while input.len() > 1` of the Repeated arm
repeated_iteration(inp, outp) ==
    IF Len(inp) < 4
    THEN [ok |-> FALSE, inp |-> inp, outp |-> outp]
    ELSE LET count   == u16_from_le_bytes(B(inp, 0), B(inp, 1))
             pattern == u16_from_le_bytes(B(inp, 2), B(inp, 3))
         IN  [ok |-> TRUE, inp |-> SliceFrom(inp, 4),
              outp |-> outp \o Repeat(u16_to_le_bytes(pattern), count)]

\* the closing assert!(output.len() == sector_size as usize)
assert_len(outp, size) == Len(outp) = size

RECURSIVE rle_loop(_, _)
rle_loop(inp, outp) ==
    IF Len(inp) > 1
    THEN LET r == rle_iteration(inp, outp)
         IN  IF r.ok THEN rle_loop(r.inp, r.outp) ELSE [ok |-> FALSE, outp |-> << >>]
    ELSE [ok |-> TRUE, outp |-> outp]

RECURSIVE repeated_loop(_, _)
repeated_loop(inp, outp) ==
    IF Len(inp) > 1
    THEN LET r == repeated_iteration(inp, outp)
         IN  IF r.ok THEN repeated_loop(r.inp, r.outp) ELSE [ok |-> FALSE, outp |-> << >>]
    ELSE [ok |-> TRUE, outp |-> outp]

\* decode_td0 as one call: the value returned, or the panic that ends it
decode_td0(method, inp, size) ==
    LET r == CASE method = 2 -> rle_loop(inp, << >>)
               [] method = 0 -> [ok |-> TRUE, outp |-> inp]
               [] method = 1 -> repeated_loop(inp, << >>)
               [] OTHER      -> [ok |-> FALSE, outp |-> << >>]
    IN  IF method \notin {0, 1, 2} THEN [status |-> "UnknownEncodingMethod", outp |-> << >>]
        ELSE IF ~r.ok THEN [status |-> "SliceOutOfRange", outp |-> << >>]
        ELSE IF ~assert_len(r.outp, size) THEN [status |-> "LengthMismatch", outp |-> << >>]
        ELSE [status |-> "ok", outp |-> r.outp]


\* --------------------------------------------------------- header decoding
\* has_comment_header testing the stepping rate bits instead of the high bit
has_comment_header_low(h) == h.stepping % 128 # 0

\* ImageHeader::has_comment_header: self.stepping & 0x80 == 0x80
has_comment_header(h) == HighBit(h.stepping)

\* ImageHeader::is_valid: self.signature == [0x54, 0x44]
is_valid(h) == h.signature = << 84, 68 >>

\* NaiveDate::from_ymd_opt(year + 1900, month + 1, day) and
\* NaiveTime::from_hms_opt(hour, minute, second) both return Some
date_time_is_some(ch) ==
    LET year  == ch.year + 1900
        month == ch.month + 1
        leap  == (year % 4 = 0 /\ year % 100 # 0) \/ year % 400 = 0
        days  == CASE month \in {1, 3, 5, 7, 8, 10, 12} -> 31
                   [] month \in {4, 6, 9, 11} -> 30
                   [] month = 2 -> IF leap THEN 29 ELSE 28
                   [] OTHER -> 0
    IN  /\ ch.day >= 1 /\ ch.day <= days
        /\ ch.hour < 24 /\ ch.minute < 60 /\ ch.second < 60

\* is_sentinel honouring the sentinel on cylinder 0 only
is_sentinel_cyl0(h) == h.number_of_sectors = 255 /\ h.cylinder_number = 0

\* the break of the track loop: th.number_of_sectors == 255
is_sentinel(h) == h.number_of_sectors = 255

\* sector_loop_done with the range one short
sector_loop_done_short(k, h) == k + 1 >= h.number_of_sectors

\* the bound of `for s in 0..th.number_of_sectors`
sector_loop_done(k, h) == k >= h.number_of_sectors

\* SectorHeader::from_bytes: 128 << raw_sector_size in a u16.  A shift of 16
\* or more panics where overflow checks are compiled in (debug) and is masked
\* to the low 4 bits where they are not (release); bits shifted out of the
\* 16 are dropped in both.
shift_panics(raw_sector_size, bld) == bld = "debug" /\ raw_sector_size >= 16
sector_size_of(raw_sector_size) == (128 * (2 ^ (raw_sector_size % 16))) % 65536

\* ------------------------------------------------------------------- state
VARIABLES
    build,          \* how the program was compiled: "debug" or "release"
    cur,            \* index of the batch entry being processed (0: none yet)
    pc,             \* where the program is
    pos,            \* bytes consumed so far from the current stream
    out,            \* per entry, what the batch has reported for it
    panic_msg,      \* the message of the panic that ended the process
    headers,        \* TeleDiskHeaders of the current stream
    th,             \* the TrackHeader last read
    sh,             \* the SectorHeader last read, and the size exponent it came from
    t,              \* track loop counter
    s,              \* sector loop counter
    dblen,          \* length prefix of the data block last read
    printed,        \* lines printed by analyse_raw_sector for the last sector
    track_pos,      \* pos just after the track header last read
    payload_sum,    \* data block bytes read since that track header
    track_headers,  \* track headers read from the current stream
    d_pc,           \* decode_td0: where the call is
    d_method,       \* decode_td0: encoding_method
    d_orig,         \* decode_td0: input as passed in
    d_input,        \* decode_td0: input, the part not yet consumed
    d_output,       \* decode_td0: output
    d_size,         \* decode_td0: sector_size
    d_err,          \* decode_td0: the panic that ended the call
    data,           \* analyse_raw_sector: the sector
    i,              \* analyse_raw_sector: loop variable
    lines,          \* analyse_raw_sector: everything printed so far
    cpm_dent_count, \* analyse_raw_sector: counter
    dos_fat_dent_count  \* analyse_raw_sector: counter

wvars == << build, cur, pc, pos, out, panic_msg, headers, th, sh, t, s, dblen,
            printed, track_pos, payload_sum, track_headers >>
dvars == << d_pc, d_method, d_orig, d_input, d_output, d_size, d_err >>
cvars == << data, i, lines, cpm_dent_count, dos_fat_dent_count >>
vars  == << wvars, dvars, cvars >>

\* ------------------------------------------------------ inputs of the walk
Builds      == {"debug", "release"}
Signatures  == { << 84, 68 >>, << 116, 100 >>, << 80, 75 >> }   \* "TD", "td", "PK"
Steppings   == {2, 128}
CommentLens == {0, 3}
CommentDates == { [year |-> 96, month |-> 1, day |-> 29],      \* 29 Feb 1996
                  [year |-> 97, month |-> 1, day |-> 29],      \* 29 Feb 1997: None
                  [year |-> 90, month |-> 12, day |-> 1] }     \* month 13: None
SectorCounts == {0, 1, 2, 255}
CylSides    == { [c |-> 0, h |-> 0], [c |-> 79, h |-> 1] }
SizeExponents == {0, 1, 9, 16}
TrailingReads == {0, 1, 64}

AB == << 65, 66 >>
ErasedEntry ==      \* byte 0 is 0xE5, name "AAAAAAAAAA ", everything else zero
    << 229 >> \o [k \in 1..10 |-> 65] \o << 32 >> \o [k \in 1..20 |-> 0]
CpmEntry ==         \* byte 0 is 0x00, name "AAAAAAAAAA ", everything else zero
    << 0 >> \o [k \in 1..10 |-> 65] \o << 32 >> \o [k \in 1..20 |-> 0]

WalkPayloads ==
    { << >>,                            \* no selector byte
      << 0 >>,                          \* raw, 0 bytes
      << 1, 64, 0 >> \o AB,             \* repeated: 64 * "AB" = 128 bytes
      << 1, 128, 0 >> \o AB,            \* repeated: 128 * "AB" = 256 bytes
      << 2, 1, 64 >> \o AB,             \* RLE: "AB" 64 times = 128 bytes
      << 2, 0, 2 >> \o AB,              \* RLE: literal "AB" = 2 bytes
      << 2, 16, 4 >> \o ErasedEntry,    \* RLE: a 32-byte entry 4 times
      << 2, 16, 4 >> \o CpmEntry,
      << 2, 2, 1 >> \o AB,              \* RLE: block of 4 cut short
      << 3 >> }                         \* selector 3
DataBlockLens == { Len(p) : p \in WalkPayloads }

NoHeaders == [image_header |-> [signature |-> << 0, 0 >>, stepping |-> 0],
              comment_header |-> [some |-> FALSE, length |-> 0,
                                  year |-> 0, month |-> 0, day |-> 0,
                                  hour |-> 0, minute |-> 0, second |-> 0]]
NoTrack  == [number_of_sectors |-> 0, cylinder_number |-> 0, side_number |-> 0]
NoSector == [raw_sector_size |-> 0, sector_size |-> 0]

WalkIdle ==
    /\ build = "release"
    /\ cur = 0 /\ pc = "idle" /\ pos = 0
    /\ out = [e \in 1..NumStreams |-> "none"]
    /\ panic_msg = "" /\ headers = NoHeaders /\ th = NoTrack /\ sh = NoSector
    /\ t = 0 /\ s = 0 /\ dblen = 0 /\ printed = << >>
    /\ track_pos = 0 /\ payload_sum = 0 /\ track_headers = 0
DecodeIdle ==
    /\ d_pc = "idle" /\ d_method = 0 /\ d_orig = << >> /\ d_input = << >>
    /\ d_output = << >> /\ d_size = 0 /\ d_err = ""
ClassifyIdle ==
    /\ data = << >> /\ i = 0 /\ lines = << >>
    /\ cpm_dent_count = 0 /\ dos_fat_dent_count = 0

\* ---------------------------------------------------------------- the walk
Init ==
    /\ build \in Builds
    /\ cur = 0 /\ pc = "next_entry" /\ pos = 0
    /\ out = [e \in 1..NumStreams |-> "none"]
    /\ panic_msg = "" /\ headers = NoHeaders /\ th = NoTrack /\ sh = NoSector
    /\ t = 0 /\ s = 0 /\ dblen = 0 /\ printed = << >>
    /\ track_pos = 0 /\ payload_sum = 0 /\ track_headers = 0
    /\ DecodeIdle /\ ClassifyIdle

\* a panic: the message goes to stderr and the process ends
Panic(msg) ==
    /\ pc' = "panicked"
    /\ panic_msg' = msg
    /\ out' = [out EXCEPT ![cur] = "panicked"]

\* process_zip_archive: the next entry opens; its stream is analysed
BeginStream ==
    /\ pc = "next_entry" /\ cur < NumStreams
    /\ cur' = cur + 1
    /\ pc' = "image_header"
    /\ pos' = 0 /\ headers' = NoHeaders /\ th' = NoTrack /\ sh' = NoSector
    /\ t' = 0 /\ s' = 0 /\ dblen' = 0 /\ printed' = << >>
    /\ track_pos' = 0 /\ payload_sum' = 0 /\ track_headers' = 0
    /\ UNCHANGED << build, out, panic_msg, dvars, cvars >>

\* process_zip_archive: by_index fails; verbose_error, then the next entry
ZipEntryError ==
    /\ pc = "next_entry" /\ cur < NumStreams
    /\ cur' = cur + 1
    /\ out' = [out EXCEPT ![cur + 1] = "entry_error"]
    /\ UNCHANGED << build, pc, pos, panic_msg, headers, th, sh, t, s, dblen,
                    printed, track_pos, payload_sum, track_headers, dvars, cvars >>

\* process_zip_archive: the loop over the entries is over
EndBatch ==
    /\ pc = "next_entry" /\ cur = NumStreams
    /\ pc' = "done"
    /\ UNCHANGED << build, cur, pos, out, panic_msg, headers, th, sh, t, s, dblen,
                    printed, track_pos, payload_sum, track_headers, dvars, cvars >>

\* analyze_teledisk_image_format_from_stream once from_stream has returned h:
\* an invalid signature ends the function; a comment header has its date and
\* time unwrapped, then its text is read; else the walk starts
AfterHeaders(h) ==
    IF ~is_valid(h.image_header)
    THEN /\ pc' = "next_entry"
         /\ out' = [out EXCEPT ![cur] = "skipped"]
         /\ UNCHANGED panic_msg
    ELSE IF h.comment_header.some
    THEN IF date_time_is_some(h.comment_header)
         THEN /\ pc' = "comment_text"
              /\ UNCHANGED << out, panic_msg >>
         ELSE Panic("called Option::unwrap() on a None value")
    ELSE /\ pc' = "track"
         /\ UNCHANGED << out, panic_msg >>

\* TeleDiskHeaders::from_stream: the 12 bytes of the image header
ReadImageHeader ==
    /\ pc = "image_header"
    /\ \/ /\ Panic("Failed to read image header")
          /\ UNCHANGED << pos, headers >>
       \/ \E sig \in Signatures, stepping \in Steppings :
            LET h == [NoHeaders EXCEPT !.image_header =
                          [signature |-> sig, stepping |-> stepping]]
            IN  /\ pos' = pos + 12
                /\ headers' = h
                /\ IF has_comment_header(h.image_header)
                   THEN /\ pc' = "comment_header"
                        /\ UNCHANGED << out, panic_msg >>
                   ELSE AfterHeaders(h)
    /\ UNCHANGED << build, cur, th, sh, t, s, dblen, printed,
                    track_pos, payload_sum, track_headers, dvars, cvars >>

\* TeleDiskHeaders::from_stream: the 10 bytes of the comment header
ReadCommentHeader ==
    /\ pc = "comment_header"
    /\ \/ /\ Panic("Failed to read comment header")
          /\ UNCHANGED << pos, headers >>
       \/ \E len \in CommentLens, d \in CommentDates :
            LET h == [headers EXCEPT !.comment_header =
                          [some |-> TRUE, length |-> len,
                           year |-> d.year, month |-> d.month, day |-> d.day,
                           hour |-> 0, minute |-> 0, second |-> 0]]
            IN  /\ pos' = pos + 10
                /\ headers' = h
                /\ AfterHeaders(h)
    /\ UNCHANGED << build, cur, th, sh, t, s, dblen, printed,
                    track_pos, payload_sum, track_headers, dvars, cvars >>

\* the `length` bytes of comment text, then analyse_track_and_sector_data
ReadCommentText ==
    /\ pc = "comment_text"
    /\ \/ /\ Panic("Failed to read data")
          /\ UNCHANGED pos
       \/ /\ pos' = pos + headers.comment_header.length
          /\ pc' = "track"
          /\ UNCHANGED << out, panic_msg >>
    /\ UNCHANGED << build, cur, headers, th, sh, t, s, dblen, printed,
                    track_pos, payload_sum, track_headers, dvars, cvars >>

\* the end of one pass of the sector loop, or of a track without sectors
AfterSector(k, h) ==
    IF sector_loop_done(k, h)
    THEN pc' = "track" /\ t' = t + 1
    ELSE pc' = "sector" /\ t' = t

\* analyse_track_and_sector_data: the 4 bytes of a track header
ReadTrackHeader ==
    /\ pc = "track"
    /\ \/ /\ Panic("Failed to read track info")
          /\ UNCHANGED << pos, th, t, s, track_pos, payload_sum, track_headers >>
       \/ \E n \in SectorCounts, cs \in CylSides :
            LET h == [number_of_sectors |-> n, cylinder_number |-> cs.c,
                      side_number |-> cs.h]
            IN  /\ n # 255 => t < MaxTracks
                /\ pos' = pos + 4
                /\ th' = h
                /\ track_pos' = pos + 4
                /\ payload_sum' = 0
                /\ track_headers' = track_headers + 1
                /\ IF is_sentinel(h)
                   THEN pc' = "trailing" /\ UNCHANGED << t, s >>
                   ELSE s' = 0 /\ AfterSector(0, h)
                /\ UNCHANGED << out, panic_msg >>
    /\ UNCHANGED << build, cur, headers, sh, dblen, printed, dvars, cvars >>

\* the 6 bytes of a sector header
ReadSectorHeader ==
    /\ pc = "sector"
    /\ \/ /\ Panic("Failed to read sector info")
          /\ UNCHANGED << pos, sh >>
       \/ \E raw_sector_size \in SizeExponents :
            /\ pos' = pos + 6
            /\ IF shift_panics(raw_sector_size, build)
               THEN /\ Panic("attempt to shift left with overflow")
                    /\ UNCHANGED sh
               ELSE /\ sh' = [raw_sector_size |-> raw_sector_size,
                            sector_size |-> sector_size_of(raw_sector_size)]
                    /\ pc' = "dblen"
                    /\ UNCHANGED << out, panic_msg >>
    /\ UNCHANGED << build, cur, headers, th, t, s, dblen, printed,
                    track_pos, payload_sum, track_headers, dvars, cvars >>

\* the 2 bytes of the data block length
ReadDataBlockLength ==
    /\ pc = "dblen"
    /\ \/ /\ Panic("Failed to read data block length")
          /\ UNCHANGED << pos, dblen >>
       \/ \E len \in DataBlockLens :
            /\ pos' = pos + 2
            /\ dblen' = len
            /\ pc' = "datablock"
            /\ UNCHANGED << out, panic_msg >>
    /\ UNCHANGED << build, cur, headers, th, sh, t, s, printed,
                    track_pos, payload_sum, track_headers, dvars, cvars >>

\* the data block, decode_td0 and analyse_raw_sector
ReadDataBlock ==
    /\ pc = "datablock"
    /\ \/ /\ Panic("Failed to read data block")
          /\ UNCHANGED << pos, payload_sum, printed, t, s >>
       \/ \E datablock \in { p \in WalkPayloads : Len(p) = dblen } :
            /\ pos' = pos + dblen
            /\ payload_sum' = payload_sum + dblen
            /\ IF dblen = 0
               THEN /\ Panic("index out of bounds")
                    /\ UNCHANGED << printed, t, s >>
               ELSE LET decoded == decode_td0(B(datablock, 0), SliceFrom(datablock, 1),
                                              sh.sector_size)
                    IN  IF decoded.status # "ok"
                        THEN /\ Panic(decoded.status)
                             /\ UNCHANGED << printed, t, s >>
                        ELSE /\ printed' = analyse_raw_sector(decoded.outp)
                             /\ s' = s + 1
                             /\ AfterSector(s + 1, th)
                             /\ UNCHANGED << out, panic_msg >>
    /\ UNCHANGED << build, cur, headers, th, sh, dblen,
                    track_pos, track_headers, dvars, cvars >>

\* after the sentinel: one read of up to 64 trailing bytes, then return
ReadTrailing ==
    /\ pc = "trailing"
    /\ \/ /\ Panic("Failed to read more")
          /\ UNCHANGED pos
       \/ \E r \in TrailingReads :
            /\ pos' = pos + r
            /\ pc' = "next_entry"
            /\ out' = [out EXCEPT ![cur] = "ended"]
            /\ UNCHANGED panic_msg
    /\ UNCHANGED << build, cur, headers, th, sh, t, s, dblen, printed,
                    track_pos, payload_sum, track_headers, dvars, cvars >>

Next ==
    \/ BeginStream
    \/ ZipEntryError
    \/ EndBatch
    \/ ReadImageHeader
    \/ ReadCommentHeader
    \/ ReadCommentText
    \/ ReadTrackHeader
    \/ ReadSectorHeader
    \/ ReadDataBlockLength
    \/ ReadDataBlock
    \/ ReadTrailing

Spec == Init /\ [][Next]_vars


\* ------------------------------------------------------------- decode_td0
DecodeBytes   == {0, 1, 2}
DecodeMethods == {0, 1, 2, 3}
DecodeSizes   == {0, 2, 4}
DecodeInputs  == UNION { [1..n -> DecodeBytes] : n \in 0..MaxInput }

\* decode_td0 is called with a selector, the rest of the data block and the
\* sector size of the sector header
InitDecode ==
    /\ WalkIdle /\ ClassifyIdle
    /\ d_pc = "run"
    /\ d_method \in DecodeMethods
    /\ d_orig \in DecodeInputs
    /\ d_input = d_orig
    /\ d_output = << >>
    /\ d_size \in DecodeSizes
    /\ d_err = ""

RleIteration ==
    /\ d_pc = "run" /\ d_method = 2 /\ Len(d_input) > 1
    /\ LET r == rle_iteration(d_input, d_output)
       IN  IF r.ok
           THEN /\ d_input' = r.inp /\ d_output' = r.outp
                /\ UNCHANGED << d_pc, d_err >>
           ELSE /\ d_pc' = "panicked" /\ d_err' = "SliceOutOfRange"
                /\ UNCHANGED << d_input, d_output >>
    /\ UNCHANGED << d_method, d_orig, d_size, wvars, cvars >>

RawCopy ==
    /\ d_pc = "run" /\ d_method = 0
    /\ d_output' = d_output \o d_input
    /\ d_pc' = "assert"
    /\ UNCHANGED << d_method, d_orig, d_input, d_size, d_err, wvars, cvars >>

RepeatedIteration ==
    /\ d_pc = "run" /\ d_method = 1 /\ Len(d_input) > 1
    /\ LET r == repeated_iteration(d_input, d_output)
       IN  IF r.ok
           THEN /\ d_input' = r.inp /\ d_output' = r.outp
                /\ UNCHANGED << d_pc, d_err >>
           ELSE /\ d_pc' = "panicked" /\ d_err' = "SliceOutOfRange"
                /\ UNCHANGED << d_input, d_output >>
    /\ UNCHANGED << d_method, d_orig, d_size, wvars, cvars >>

UnknownMethod ==
    /\ d_pc = "run" /\ d_method \notin {0, 1, 2}
    /\ d_pc' = "panicked" /\ d_err' = "UnknownEncodingMethod"
    /\ UNCHANGED << d_method, d_orig, d_input, d_output, d_size, wvars, cvars >>

\* the loop is over (or the raw copy is made): the assert, then the return
AssertLength ==
    /\ \/ d_pc = "assert"
       \/ d_pc = "run" /\ d_method \in {1, 2} /\ Len(d_input) <= 1
    /\ IF assert_len(d_output, d_size)
       THEN d_pc' = "returned" /\ UNCHANGED d_err
       ELSE d_pc' = "panicked" /\ d_err' = "LengthMismatch"
    /\ UNCHANGED << d_method, d_orig, d_input, d_output, d_size, wvars, cvars >>

NextDecode ==
    \/ RleIteration
    \/ RawCopy
    \/ RepeatedIteration
    \/ UnknownMethod
    \/ AssertLength

SpecDecode == InitDecode /\ [][NextDecode]_vars

\* ------------------------------------------------------ analyse_raw_sector
\* a 32-byte slot: byte 0, bytes 1..10, byte 11, bytes 12..15 (CP/M Ex, S1,
\* S2, Rc), zeros then nz non-zero bytes in 16..21, zeros in 22..31
MkSlot(b0, fill, b11, ex, s1, s2, rc, nz) ==
    << b0 >> \o [k \in 1..10 |-> fill] \o << b11, ex, s1, s2, rc >>
             \o [k \in 1..6 |-> IF k > 6 - nz THEN 1 ELSE 0] \o [k \in 1..10 |-> 0]

SlotSet ==
    { MkSlot(b0, fill, b11, 0, 0, s2, rc, nz) :
        b0 \in {0, 5, 46, 229, 65, 128}, fill \in {65, 229, 31},
        b11 \in {32, 0, 229}, s2 \in {0, 1}, rc \in {0, 128, 129},
        nz \in {0, 2} }

RECURSIVE SectorsOf(_)
SectorsOf(n) ==
    IF n = 0 THEN { << >> }
    ELSE { sec \o slot : sec \in SectorsOf(n - 1), slot \in SlotSet }

InitClassify ==
    /\ WalkIdle /\ DecodeIdle
    /\ data \in SectorsOf(MaxSlots)
    /\ i = 0
    /\ lines = << >>
    /\ cpm_dent_count = 0
    /\ dos_fat_dent_count = 0

\* one pass of `for i in (0..data.len()).step_by(dent_size)`
AnalyseSlot ==
    /\ pc = "idle" /\ d_pc = "idle"
    /\ i < Len(data)
    /\ LET r == analyse_slot(data, i)
       IN  /\ lines' = lines \o r.printed
           /\ dos_fat_dent_count' = dos_fat_dent_count + r.fat
           /\ cpm_dent_count' = cpm_dent_count + r.cpm
    /\ i' = i + dent_size
    /\ UNCHANGED << data, wvars, dvars >>

NextClassify == AnalyseSlot

SpecClassify == InitClassify /\ [][NextClassify]_vars


\* ================================================================== claims

\* what analyse_raw_sector printed for slot j
EntriesOf(j) == { k \in DOMAIN lines : lines[k].slot = j /\ lines[k].kind \in {"F", "C"} }
DumpsOf(j)   == { k \in DOMAIN lines : lines[k].slot = j /\ lines[k].kind = "-" }
SlotsDone    == 0..((i \div dent_size) - 1)

\* C1: a slot is reported as a FAT or CP/M entry iff exactly one recognizer
\* accepts it; when none or both accept, it is reported only as Unclassified,
\* with its raw 32 bytes and a flag telling whether any recognizer matched,
\* and no FAT or CP/M entry is reported for it.
C1_ClassifiedIffExactlyOne ==
    \A j \in SlotsDone :
        LET fat == isfat(data, j * dent_size).flow = "Continue"
            cpm == iscpm(data, j * dent_size).flow = "Continue"
        IN  IF fat # cpm
            THEN /\ Cardinality(EntriesOf(j)) = 1
                 /\ DumpsOf(j) = {}
                 /\ \A k \in EntriesOf(j) : lines[k].kind = IF fat THEN "F" ELSE "C"
            ELSE /\ EntriesOf(j) = {}
                 /\ Cardinality(DumpsOf(j)) = 1
                 /\ \A k \in DumpsOf(j) :
                        /\ lines[k].raw = Slice(data, j * dent_size, (j + 1) * dent_size)
                        /\ lines[k].hexonly = (fat \/ cpm)

\* C2: when the program has stopped, every stream of the batch has been
\* processed: a failure in one stream does not keep a later one from being
\* processed.
C2_FailureAbortsOneStream ==
    pc \in {"done", "panicked"} => \A e \in 1..NumStreams : out[e] # "none"

\* C3: for a selector in {0,1,2}, decode_td0 either returns exactly
\* sector_size bytes or fails with a length-mismatch error.
C3_ExactLengthOrMismatch ==
    d_method \in {0, 1, 2} =>
        /\ d_pc = "returned" => Len(d_output) = d_size
        /\ d_pc = "panicked" => d_err = "LengthMismatch"

\* C4: reading a track header whose sector count is 255 moves the walker to
\* Terminated at once, whatever cylinder and side; nothing of that track and
\* no further track header is read after it; and a stream ends successfully
\* only from there.
C4_SentinelTerminates ==
    /\ [](pc = "trailing" => th.number_of_sectors = 255 /\ pos = track_pos)
    /\ [][ /\ (pc = "track" /\ track_headers' = track_headers + 1
                            /\ th'.number_of_sectors = 255) => pc' = "trailing"
           /\ pc = "trailing" => /\ track_headers' = track_headers
                                 /\ pc' \in {"next_entry", "panicked"}
           /\ (cur' = cur /\ cur >= 1 /\ out[cur] # "ended" /\ out'[cur] = "ended")
                  => pc = "trailing" /\ th.number_of_sectors = 255 ]_vars

C4_Witness ==
    /\ pc = "trailing" /\ t = 1
    /\ th.cylinder_number = 79 /\ th.side_number = 1

\* C5: a stream whose signature is not "TD" is skipped: exactly the 12
\* header bytes are consumed and the skip is not fatal.
C5_BadSignatureSkipped ==
    (pos > 0 /\ headers.image_header.signature # << 84, 68 >>) =>
        pos = 12 /\ pc # "panicked"

\* C6: a slot with first byte 0x00, printable name bytes and zero reserved
\* bytes that also passes every CP/M check is reported as Unclassified, with
\* both recognizers matched, and neither as a FAT nor as a CP/M entry.
C6_AmbiguousZeroSlot ==
    \A j \in SlotsDone :
        LET o == j * dent_size
        IN  ( /\ B(data, o) = 0
              /\ \A k \in 1..10 : Printable(B(data, o + k))
              /\ \A k \in 12..21 : B(data, o + k) = 0
              /\ \A k \in 1..11 : Printable(B(data, o + k) % 128)
              /\ B(data, o + 13) = 0 /\ B(data, o + 14) = 0
              /\ B(data, o + 15) <= 128 )
            => /\ EntriesOf(j) = {}
               /\ Cardinality(DumpsOf(j)) = 1
               /\ \A k \in DumpsOf(j) : lines[k].hexonly

\* the part of the input decode_td0 has consumed
Consumed == SubSeq(d_orig, 1, Len(d_orig) - Len(d_input))

\* the block of `n` bytes that follows the two bytes of a token
BlockAfter(bytes, n) == SubSeq(bytes, 3, 2 + n)
Times(block, n) == [k \in 1..(n * Len(block)) |-> block[((k - 1) % Len(block)) + 1]]

RECURSIVE Method2Expansion(_)
Method2Expansion(bytes) ==
    IF Len(bytes) < 2 THEN << >>
    ELSE LET a == bytes[1]
             b == bytes[2]
         IN  IF a = 0
             THEN BlockAfter(bytes, b)
                      \o Method2Expansion(SubSeq(bytes, 3 + b, Len(bytes)))
             ELSE Times(BlockAfter(bytes, a * 2), b)
                      \o Method2Expansion(SubSeq(bytes, 3 + a * 2, Len(bytes)))

RECURSIVE Method1Expansion(_)
Method1Expansion(bytes) ==
    IF Len(bytes) < 2 THEN << >>
    ELSE Times(<< bytes[3], bytes[4] >>, bytes[1] + 256 * bytes[2])
             \o Method1Expansion(SubSeq(bytes, 5, Len(bytes)))

RECURSIVE Method1Counts(_)
Method1Counts(bytes) ==
    IF Len(bytes) < 2 THEN 0
    ELSE bytes[1] + 256 * bytes[2] + Method1Counts(SubSeq(bytes, 5, Len(bytes)))

FirstTrackOffset ==
    IF (headers.image_header.stepping \div 128) % 2 = 1
    THEN 22 + headers.comment_header.length
    ELSE 12

DecodePanics == {"index out of bounds", "UnknownEncodingMethod", "SliceOutOfRange",
                 "LengthMismatch"}

\* C10: after a track header with count n # 255 the walker reads n sector
\* records in stream order, each a 6-byte header, a u16 length L and L
\* payload bytes (consumed even when the payload then fails to decode), and
\* awaits the next track header only after the n-th; n = 0 reads none.
C10_SectorRecords ==
    /\ [] /\ pc \in {"sector", "dblen", "datablock"} =>
                /\ s < th.number_of_sectors /\ th.number_of_sectors # 255
                /\ pos = track_pos + 8 * s + payload_sum
                         + (CASE pc = "sector" -> 0 [] pc = "dblen" -> 6
                              [] pc = "datablock" -> 8)
          /\ (pc = "track" /\ track_headers > 0) =>
                /\ s = th.number_of_sectors
                /\ pos = track_pos + 8 * s + payload_sum
          /\ (pc = "panicked" /\ panic_msg \in DecodePanics) =>
                pos = track_pos + 8 * (s + 1) + payload_sum
    /\ [][ (pc = "datablock" /\ panic_msg' # "Failed to read data block")
               => pos' = pos + dblen /\ payload_sum' = payload_sum + dblen ]_vars

C10_Witness ==
    /\ pc = "track" /\ th.number_of_sectors = 2 /\ s = 2
    /\ payload_sum = 40


\* slot j was reported as a CP/M entry: iscpm accepted it
CpmReported(j) == \E k \in DOMAIN lines : lines[k].slot = j /\ lines[k].kind = "C"

\* C11: the CP/M recognizer accepts a slot iff the status byte is 0x00, 0xE5
\* or 0x80, each of the 11 name/extension bytes masked to 7 bits is in
\* 0x20..0x7E, it is not so that the status is 0xE5 and all 11 unmasked
\* name/extension bytes are 0xE5, S1 and S2 are zero and the record count is
\* at most 128; an all-0xE5 slot is rejected.
C11_CpmAcceptsIff ==
    \A j \in SlotsDone :
        LET o == j * dent_size
        IN  CpmReported(j) <=>
              /\ B(data, o) \in {0, 229, 128}
              /\ \A k \in 1..11 : (B(data, o + k) % 128) \in 32..126
              /\ ~(B(data, o) = 229 /\ \A k \in 1..11 : B(data, o + k) = 229)
              /\ B(data, o + 13) = 0 /\ B(data, o + 14) = 0
              /\ B(data, o + 15) <= 128


\* slot j was reported as a FAT entry: isfat accepted it
FatReported(j) == \E k \in DOMAIN lines : lines[k].slot = j /\ lines[k].kind = "F"

\* C12: the FAT recognizer accepts a slot iff its first byte is 0x00, 0x05,
\* 0x2E, 0xE5 or printable ASCII, every name/extension byte masked to 7 bits
\* is printable ASCII (a first byte of 0x00 or 0x05 is accepted all the same),
\* and the 8 reserved bytes from offset 0x0C hold at most 2 non-zero bytes.
C12_FatAcceptsIff ==
    \A j \in SlotsDone :
        LET o == j * dent_size
            first == B(data, o)
        IN  FatReported(j) <=>
              /\ first \in {0, 5, 46, 229} \/ first \in 32..126
              /\ first \in {0, 5} \/ (first % 128) \in 32..126
              /\ \A k \in 1..10 : (B(data, o + k) % 128) \in 32..126
              /\ Cardinality({ k \in 12..19 : B(data, o + k) # 0 }) <= 2


\* C13: the sector size taken from a sector header, the length decode_td0
\* is told to expect, is 128 << exponent for every value of the exponent
\* byte, with no wrap-around and no truncation to the width of the field.
C13_SectorSizeIsShift ==
    /\ panic_msg # "attempt to shift left with overflow"
    /\ pc \in {"dblen", "datablock"} =>
           sh.sector_size = 128 * (2 ^ sh.raw_sector_size)

====
